---------------------------- MODULE Spec2Model ----------------------------
(***************************************************************************)
(* A model of the query execution core of grumpr: the thompson NFAs the    *)
(* automata constructors build (src/src/librarian/search/automata.rs),     *)
(* their determinisation as the dense DFA performs it, the MultiHeadDFA    *)
(* walk over a trie wrapped in a NestedNode, the histogram filters, and    *)
(* the Librarian queries that combine them.                                *)
(*                                                                         *)
(* Bytes are integers (97 = 'a').  Strings are sequences of bytes; every   *)
(* string of the model is ASCII, so a char is one byte.                    *)
(***************************************************************************)
EXTENDS Integers, Sequences, FiniteSets, TLC

(***************************************************************************)
(* Bounds of the model.                                                    *)
(***************************************************************************)
MaxPatLen == 3      \* longest pattern of an automaton
MaxInLen  == 4      \* longest input string fed to an automaton alone
MaxDist   == 2      \* largest edit distance asked for
MaxKeyLen == 2      \* longest key of a walked trie
MaxKeys   == 2      \* most keys of a walked trie
MaxDepth  == 1      \* deepest nesting of a walk
MaxSeeds  == 2      \* most seeds of a library
MaxWildcards == 1   \* most wildcards of an anagram query
MaxInserts == 3     \* calls of Trie::insert on one trie
MaxValue  == 2      \* distinct values inserted
MaxRefinements == 2 \* views derived one from another
MaxView   == 4      \* most grams of a view a further query is put to
MaxCalls  == 2      \* calls of gram::levenshtein in one process

Alphabet == {97, 98}            \* 'a', 'b'

(***************************************************************************)
(* Generic helpers on sequences.                                           *)
(***************************************************************************)
\* A value named once and used many times: body(value).
Let(value, body(_)) == body(value)

Reverse(s) == [i \in 1..Len(s) |-> s[Len(s) + 1 - i]]

Min(a, b) == IF a <= b THEN a ELSE b

Range(s) == {s[i] : i \in 1..Len(s)}

Contains(s, x) == \E i \in 1..Len(s) : s[i] = x

RECURSIVE Concat(_)
Concat(ss) == IF ss = <<>> THEN <<>> ELSE Head(ss) \o Concat(Tail(ss))

\* All strings over Alphabet of length 0..n
RECURSIVE StringsUpTo(_)
StringsUpTo(n) ==
    IF n = 0 THEN {<<>>}
    ELSE LET S == StringsUpTo(n - 1)
         IN S \cup {Append(s, c) : s \in {t \in S : Len(t) = n - 1}, c \in Alphabet}

Count(s, c) == Cardinality({i \in 1..Len(s) : s[i] = c})

\* s is t with some of its elements left out.
RECURSIVE IsSubsequence(_, _)
IsSubsequence(s, t) ==
    IF s = <<>> THEN TRUE
    ELSE IF t = <<>> THEN FALSE
    ELSE IF Head(s) = Head(t) THEN IsSubsequence(Tail(s), Tail(t))
    ELSE IsSubsequence(s, Tail(t))

\* Same multiset of bytes: what comparing the sorted byte sequences decides.
SameSorted(s, t) ==
    /\ Len(s) = Len(t)
    /\ \A c \in Range(s) \cup Range(t) : Count(s, c) = Count(t, c)

\* char::encode_utf8: the bytes of a character.
encode_utf8(c) ==
    IF c < 128 THEN <<c>>
    ELSE IF c < 2048 THEN <<192 + (c \div 64), 128 + (c % 64)>>
    ELSE IF c < 65536
    THEN <<224 + (c \div 4096), 128 + ((c \div 64) % 64), 128 + (c % 64)>>
    ELSE <<240 + (c \div 262144), 128 + ((c \div 4096) % 64), 128 + ((c \div 64) % 64),
           128 + (c % 64)>>

\* str::bytes: the bytes of a text, a text being the sequence of its chars.
as_bytes(s) == Concat([i \in 1..Len(s) |-> encode_utf8(s[i])])

(***************************************************************************)
(* regex_automata::nfa::thompson::Builder, as the constructors use it.     *)
(* A builder is the sequence of the states added so far (a StateID is the  *)
(* position in it, counted from 1; 0 stands for no target), the number of patterns    *)
(* started, and whether a call has returned an error: every call returns a *)
(* Result and the constructors leave through `?` on the first error.       *)
(***************************************************************************)
St(kind, lo, hi, next, alts, look, pid) ==
    [kind |-> kind, lo |-> lo, hi |-> hi, next |-> next,
     alts |-> alts, look |-> look, pid |-> pid]

BuilderNew == [st |-> <<>>, npat |-> 0, err |-> FALSE]

last(b) == Len(b.st)

add(b, s) == [b EXCEPT !.st = Append(@, s)]

add_empty(b) == add(b, St("empty", 0, 0, 0, <<>>, "", 0))

add_union(b, alternates) == add(b, St("union", 0, 0, 0, alternates, "", 0))

add_range(b, lo, hi, next) == add(b, St("range", lo, hi, next, <<>>, "", 0))

add_look(b, next, look) == add(b, St("look", 0, 0, next, <<>>, look, 0))

\* start_pattern hands out the pattern ids 0, 1, 2, ... ; add_match tags the
\* match state with the pattern in progress.
start_pattern(b) == [b EXCEPT !.npat = @ + 1]

add_match(b) == add(b, St("match", 0, 0, 0, <<>>, "", b.npat - 1))

\* Builder::patch: a union gains an alternate; an empty, range or look state
\* has its single target set, replacing the target it had.
patch(b, from, to) ==
    LET s == b.st[from]
    IN  IF s.kind = "union"
        THEN [b EXCEPT !.st[from].alts = Append(@, to)]
        ELSE IF s.kind \in {"empty", "range", "look"}
             THEN [b EXCEPT !.st[from].next = to]
             ELSE b

(***************************************************************************)
(* regex_syntax::utf8::Utf8Sequences(lo, hi) on ASCII chars: one sequence  *)
(* of one byte range.  For (char::MIN, char::MAX) the library also yields  *)
(* the multi-byte sequences, whose lead bytes are >= 0xC2; no string of    *)
(* the model holds such a byte, so only the one-byte sequence is kept.     *)
(***************************************************************************)
CharMin == 0

Utf8Sequences(lo, hi) ==
    << << [lo |-> lo, hi |-> IF hi > 127 THEN 127 ELSE hi] >> >>

\* One sequence: its ranges chained from the last back to the first, ending
\* in state_end.  Returns the builder and the first state of the chain.
RECURSIVE utf8_chain(_, _, _, _)
utf8_chain(b, sequence, i, next) ==
    IF b.err \/ i = 0 THEN [b |-> b, start |-> next]
    ELSE LET b1 == add_range(b, sequence[i].lo, sequence[i].hi, next)
         IN  utf8_chain(b1, sequence, i - 1, last(b1))

RECURSIVE utf8_all(_, _, _, _, _)
utf8_all(b, sequences, k, state_end, transitions) ==
    IF b.err \/ k > Len(sequences) THEN [b |-> b, transitions |-> transitions]
    ELSE Let(utf8_chain(b, sequences[k], Len(sequences[k]), state_end), LAMBDA c :
             utf8_all(c.b, sequences, k + 1, state_end, Append(transitions, c.start)))

build_utf8_sequences(b, sequences) ==
    Let(add_empty(b), LAMBDA b1 :                      \* state_end = last(b1)
    Let(utf8_all(b1, sequences, 1, last(b1), <<>>), LAMBDA r :
    Let(add_union(r.b, r.transitions), LAMBDA b2 :
        [b |-> b2, start |-> last(b2), end |-> last(b1)])))


(***************************************************************************)
(* automata.rs: pattern_layer.  One layer of the Levenshtein NFA: a column *)
(* state per progress 0..|pattern| in the pattern (states[1] is progress   *)
(* 0), each a union whose first alternate consumes the next pattern char.  *)
(* The last column is state_end; in a layer that can match it leads        *)
(* through Look::End to the layer's match state.                           *)
(***************************************************************************)
RECURSIVE layer_chars(_, _, _, _, _)
layer_chars(b, pattern, i, next, states) ==
    IF b.err \/ i = 0 THEN [b |-> b, states |-> Reverse(Append(states, next))]
    ELSE Let(build_utf8_sequences(b, Utf8Sequences(pattern[i], pattern[i])), LAMBDA u :
         Let(add_union(patch(u.b, u.end, next), <<u.start>>), LAMBDA b2 :
             layer_chars(b2, pattern, i - 1, last(b2), Append(states, next))))

pattern_layer(b, pattern, can_match) ==
    Let(add_union(b, <<>>), LAMBDA b1 :                \* state_end = last(b1)
    Let(IF can_match
        THEN Let(add_match(start_pattern(b1)), LAMBDA m1 :
             Let(add_look(m1, last(m1), "End"), LAMBDA m2 :
                 patch(m2, last(b1), last(m2))))
        ELSE b1, LAMBDA b2 :
    Let(layer_chars(b2, pattern, Len(pattern), last(b1), <<>>), LAMBDA r :
        [b |-> r.b, states |-> r.states,
         has_pid |-> can_match, pid |-> b2.npat - 1])))

(***************************************************************************)
(* automata.rs: levenshtein.  Layer k is linked to layer k+1 column by     *)
(* column: prev gains an alternate into an any-char sequence whose end is  *)
(* patched to curr and then, when a next column exists, patched again to   *)
(* next (an Empty state has one target: the second patch replaces the      *)
(* first); prev also gains next as an alternate.                           *)
(***************************************************************************)
CharMax == 1114111

RECURSIVE link_columns(_, _, _, _)
link_columns(b, layer_prev, layer, i) ==
    IF b.err \/ i > Len(layer) THEN b
    ELSE LET prev == layer_prev[i]
             curr == layer[i]
         IN  Let(build_utf8_sequences(b, Utf8Sequences(CharMin, CharMax)), LAMBDA u :
             Let(patch(patch(u.b, prev, u.start), u.end, curr), LAMBDA b2 :
                 link_columns(IF i < Len(layer)
                              THEN patch(patch(b2, u.end, layer[i + 1]), prev, layer[i + 1])
                              ELSE b2,
                              layer_prev, layer, i + 1)))

MaxOf(S) == IF S = {} THEN 0 ELSE CHOOSE m \in S : \A x \in S : x <= m

RECURSIVE lev_layers(_, _, _, _, _, _, _)
lev_layers(b, pattern, distances, distance, max, layer_prev, patterns) ==
    IF b.err \/ distance > max THEN [b |-> b, patterns |-> patterns]
    ELSE Let(pattern_layer(b, pattern, distance \in distances), LAMBDA l :
             lev_layers(link_columns(l.b, layer_prev, l.states, 1),
                        pattern, distances, distance + 1, max, l.states,
                        IF l.has_pid THEN Append(patterns, distance) ELSE patterns))

\* Returns the NFA handed to the dense DFA builder (start state state_start)
\* and `patterns`, the map from pattern id (position - 1) to distance.
levenshtein(pattern, distances) ==
    Let(add_empty(BuilderNew), LAMBDA b0 :             \* state_start = last(b0)
    Let(pattern_layer(b0, pattern, 0 \in distances), LAMBDA l0 :
    Let(lev_layers(patch(l0.b, last(b0), l0.states[1]), pattern, distances,
                   1, MaxOf(distances), l0.states,
                   IF l0.has_pid THEN <<0>> ELSE <<>>), LAMBDA r :
        [st |-> r.b.st, start |-> last(b0), patterns |-> r.patterns])))

(***************************************************************************)
(* automata.rs: anagram.  One branch per permutation of the pattern        *)
(* (itertools permutations: by position, so repeated letters repeat        *)
(* branches), between Look::Start and Look::End.                           *)
(***************************************************************************)
RemoveAt(s, i) == SubSeq(s, 1, i - 1) \o SubSeq(s, i + 1, Len(s))

\* A constructor that writes the pattern's own order only.
no_permutations(s) == << s >>

RECURSIVE permutations(_)
permutations(s) ==
    IF s = <<>> THEN << <<>> >>
    ELSE Concat([i \in 1..Len(s) |->
                    LET rest == permutations(RemoveAt(s, i))
                    IN  [k \in 1..Len(rest) |-> <<s[i]>> \o rest[k]]])

RECURSIVE byte_chain(_, _, _, _)
byte_chain(b, bytes, i, next) ==
    IF b.err \/ i = 0 THEN [b |-> b, start |-> next]
    ELSE LET b1 == add_range(b, bytes[i], bytes[i], next)
         IN  byte_chain(b1, bytes, i - 1, last(b1))

RECURSIVE anagram_branches(_, _, _, _, _)
anagram_branches(b, perms, k, state_boundary, state_end) ==
    IF b.err \/ k > Len(perms) THEN b
    ELSE Let(byte_chain(b, as_bytes(perms[k]), Len(as_bytes(perms[k])), state_end), LAMBDA c :
             anagram_branches(patch(c.b, state_boundary, c.start), perms, k + 1,
                              state_boundary, state_end))

anagram(pattern) ==
    Let(add_union(start_pattern(BuilderNew), <<>>), LAMBDA b1 :   \* state_boundary
    Let(add_look(b1, last(b1), "Start"), LAMBDA b2 :              \* state_start
    Let(add_match(b2), LAMBDA b3 :
    Let(add_look(b3, last(b3), "End"), LAMBDA b4 :                \* state_end
    Let(anagram_branches(b4, permutations(pattern), 1, last(b1), last(b4)), LAMBDA b5 :
        [st |-> b5.st, start |-> last(b2), patterns |-> <<>>])))))


(***************************************************************************)
(* The dense DFA, as regex_automata determinises an NFA (match kind        *)
(* leftmost-first, no minimisation).  A DFA state is the ordered set of    *)
(* the non-epsilon NFA states it stands for, the patterns it matches, and  *)
(* the look-behind assertions it holds.  EOI is the end-of-input unit.     *)
(***************************************************************************)
EOI == -1

\* util::determinize::epsilon_closure: depth first, the alternates of a
\* union in their order; `set` keeps insertion order and doubles as the
\* visited set.
RECURSIVE epsilon_closure(_, _, _, _), closure_alternates(_, _, _, _, _)
epsilon_closure(st, id, look_have, set) ==
    IF Contains(set, id) THEN set
    ELSE IF st[id].kind = "empty"
    THEN epsilon_closure(st, st[id].next, look_have, Append(set, id))
    ELSE IF st[id].kind = "look" /\ st[id].look \in look_have
    THEN epsilon_closure(st, st[id].next, look_have, Append(set, id))
    ELSE IF st[id].kind = "union"
    THEN closure_alternates(st, st[id].alts, 1, look_have, Append(set, id))
    ELSE Append(set, id)

closure_alternates(st, alts, k, look_have, set) ==
    IF k > Len(alts) THEN set
    ELSE closure_alternates(st, alts, k + 1, look_have,
                            epsilon_closure(st, alts[k], look_have, set))

\* add_nfa_states: pure epsilon states are not kept in the DFA state.
IsKept(st, id) == st[id].kind \in {"range", "look", "match"}

KeptStates(st, set) == SelectSeq(set, LAMBDA id : IsKept(st, id))

look_need(st, ids) == {st[ids[i]].look : i \in {j \in 1..Len(ids) : st[ids[j]].kind = "look"}}

DState(st, set, matches, look_have) ==
    Let(KeptStates(st, set), LAMBDA kept :
        [nfa |-> kept, match |-> matches,
         have |-> IF look_need(st, kept) = {} THEN {} ELSE look_have])

DEAD == [nfa |-> <<>>, match |-> <<>>, have |-> {}]

\* Automaton::start_state(&Config::new()): unanchored, at the start of the
\* text, so Look::Start holds.
start_state(nfa) ==
    DState(nfa.st, epsilon_closure(nfa.st, nfa.start, {"Start"}, <<>>), <<>>, {"Start"})

\* The closure recomputed under the assertions that became true.
RECURSIVE reclose(_, _, _, _, _)
reclose(st, ids, i, look_have, set) ==
    IF i > Len(ids) THEN set
    ELSE reclose(st, ids, i + 1, look_have,
                 epsilon_closure(st, ids[i], look_have, set))

\* util::determinize::next, the loop over the NFA states of the current DFA
\* state: a match state makes the NEW state a match state (matches are
\* delayed by one unit) and, leftmost-first, ends the loop.
RECURSIVE next_loop(_, _, _, _, _, _)
next_loop(st, set1, i, unit, set2, matches) ==
    IF i > Len(set1) THEN [set |-> set2, match |-> matches]
    ELSE LET s == st[set1[i]]
         IN  IF s.kind = "match"
             THEN [set |-> set2, match |-> Append(matches, s.pid)]
             ELSE IF s.kind = "range" /\ unit # EOI /\ s.lo <= unit /\ unit <= s.hi
             THEN next_loop(st, set1, i + 1, unit,
                            epsilon_closure(st, s.next, {}, set2), matches)
             ELSE next_loop(st, set1, i + 1, unit, set2, matches)

determinize_next(nfa, state, unit) ==
    LET st    == nfa.st
        have1 == IF unit = EOI THEN state.have \cup {"End"} ELSE state.have
        set1  == IF (have1 \ state.have) \cap look_need(st, state.nfa) # {}
                 THEN reclose(st, state.nfa, 1, have1, <<>>)
                 ELSE state.nfa
    IN  Let(next_loop(st, set1, 1, unit, <<>>, <<>>), LAMBDA r :
            DState(st, r.set, r.match, {}))

\* The Automaton interface the walk uses.
next_state(nfa, state, byte) == determinize_next(nfa, state, byte)

next_eoi_state(nfa, state) == determinize_next(nfa, state, EOI)

is_match_state(state) == state.match # <<>>

\* A walk that gives up on every state that is not a match yet.
is_unmatched_state(state) == state.match = <<>>

is_dead_state(state) == state.nfa = <<>> /\ state.match = <<>>

\* dfa.match_pattern(state, 0): the first pattern of a match state.
match_pattern(state) == state.match[1]

\* The closure levenshtein returns: the distance of a matched state.
dist_fn(nfa, state) == nfa.patterns[match_pattern(state) + 1]


(***************************************************************************)
(* The automata compiled from a regular expression.  The patterns are the  *)
(* literal texts of a Match query and the character class the anagram      *)
(* filter writes.                                                          *)
(***************************************************************************)
\* The pattern syntax of the model: "." is any character but the line feed,
\* every other character is itself.
is_dot(c) == c = 46

\* The UTF-8 sequences of the class ".": the single bytes but the line feed
\* and the two-byte sequences.  The longer sequences start with a byte
\* >= 0xE0, which no text of the model holds.
dot_sequences ==
    << << [lo |-> 0, hi |-> 9] >>,
       << [lo |-> 11, hi |-> 127] >>,
       << [lo |-> 194, hi |-> 223], [lo |-> 128, hi |-> 191] >> >>

\* The pattern compiled from its last character back to its first, ending
\* in `next`.
RECURSIVE regex_chain(_, _, _, _)
regex_chain(b, pattern, i, next) ==
    IF b.err \/ i = 0 THEN [b |-> b, start |-> next]
    ELSE IF is_dot(pattern[i])
    THEN Let(utf8_all(b, dot_sequences, 1, next, <<>>), LAMBDA r :
         Let(add_union(r.b, r.transitions), LAMBDA b1 :
             regex_chain(b1, pattern, i - 1, last(b1))))
    ELSE Let(byte_chain(b, encode_utf8(pattern[i]), Len(encode_utf8(pattern[i])), next),
             LAMBDA c : regex_chain(c.b, pattern, i - 1, c.start))

\* dense::Builder::new().build(pattern) in search_deep: the unanchored
\* prefix (?s-u:.)*? prefers to leave the loop, so the pattern is the first
\* alternate and the any-byte loop the second one.
regex(pattern) ==
    Let(add_match(start_pattern(BuilderNew)), LAMBDA b1 :
    Let(regex_chain(b1, pattern, Len(pattern), last(b1)), LAMBDA b2 :
    Let(add_union(b2.b, <<b2.start>>), LAMBDA b3 :
    Let(add_range(b3, 0, 255, last(b3)), LAMBDA b4 :
        [st |-> patch(b4, last(b3), last(b4)).st, start |-> last(b3), patterns |-> <<>>]))))

\* One state per repetition of the class [pattern]: a byte range per
\* distinct byte of the pattern, every one leading to `next`.
RECURSIVE class_ranges(_, _, _, _)
class_ranges(b, members, next, ids) ==
    IF b.err \/ members = {} THEN [b |-> b, ids |-> ids]
    ELSE LET m  == CHOOSE x \in members : \A y \in members : x <= y
             b1 == add_range(b, m, m, next)
         IN  class_ranges(b1, members \ {m}, next, Append(ids, last(b1)))

RECURSIVE class_repeat(_, _, _, _)
class_repeat(b, members, n, next) ==
    IF b.err \/ n = 0 THEN [b |-> b, next |-> next]
    ELSE Let(class_ranges(b, members, next, <<>>), LAMBDA r :
         Let(add_union(r.b, r.ids), LAMBDA b1 :
             class_repeat(b1, members, n - 1, last(b1))))

\* anagram_filter: the automaton of ^[pattern]{pattern.len()}$.  The text
\* starts with ^, so no unanchored prefix is compiled.  An empty pattern
\* writes the class [] which does not parse: the call returns an error.
anagram_filter(pattern) ==
    Let(add_match(start_pattern(BuilderNew)), LAMBDA b1 :
    Let(add_look(b1, last(b1), "End"), LAMBDA b2 :
    Let(class_repeat(b2, Range(pattern), Len(pattern), last(b2)), LAMBDA r :
    Let(add_look(r.b, r.next, "Start"), LAMBDA b3 :
        [st |-> b3.st, start |-> last(b3), patterns |-> <<>>]))))

anagram_filter_is_err(pattern) == pattern = <<>>

(***************************************************************************)
(* The trie (src/src/trie).  A node is named by its nibble path from the   *)
(* root; a trie maps the paths of its allocated nodes to their label:      *)
(* whether the node is labelled, and its value (NoValue when it has none). *)
(* Label::notch is the char that ends the node's path and is not kept.     *)
(***************************************************************************)
NoValue == 0

CHILDREN == 16

\* Nibbles taken low half first.
as_nibbles_low_first(key) ==
    Let(as_bytes(key), LAMBDA bs :
        Concat([i \in 1..Len(bs) |-> <<bs[i] % CHILDREN, bs[i] \div CHILDREN>>]))

as_nibbles(key) ==
    Let(as_bytes(key), LAMBDA bs :
        Concat([i \in 1..Len(bs) |-> <<bs[i] \div CHILDREN, bs[i] % CHILDREN>>]))

Unlabelled == [labelled |-> FALSE, value |-> NoValue]

TrieNew == (<<>> :> Unlabelled)

Prefixes(path) == {SubSeq(path, 1, n) : n \in 0..Len(path)}

\* An insert that keeps the value a key already has.
insert_first(trie, key, value) ==
    LET path     == as_nibbles(key)
        ends     == {as_nibbles(SubSeq(key, 1, n)) : n \in 1..Len(key)}
        nodes    == DOMAIN trie \cup Prefixes(path)
        walked   == [n \in nodes |->
                        LET old == IF n \in DOMAIN trie THEN trie[n] ELSE Unlabelled
                        IN  IF n \in ends THEN [old EXCEPT !.labelled = TRUE] ELSE old]
    IN  IF ~walked[path].labelled
        THEN [panic |-> TRUE, trie |-> walked, old |-> NoValue]
        ELSE [panic |-> FALSE,
              trie  |-> IF walked[path].value = NoValue
                        THEN [walked EXCEPT ![path].value = value]
                        ELSE walked,
              old   |-> walked[path].value]

\* An insert that writes the value to every labelled node it walks through.
insert_shared(trie, key, value) ==
    LET path     == as_nibbles(key)
        ends     == {as_nibbles(SubSeq(key, 1, n)) : n \in 1..Len(key)}
        nodes    == DOMAIN trie \cup Prefixes(path)
        walked   == [n \in nodes |->
                        LET old == IF n \in DOMAIN trie THEN trie[n] ELSE Unlabelled
                        IN  IF n \in ends THEN [old EXCEPT !.labelled = TRUE] ELSE old]
    IN  IF ~walked[path].labelled
        THEN [panic |-> TRUE, trie |-> walked, old |-> NoValue]
        ELSE [panic |-> FALSE,
              trie  |-> [n \in nodes |-> IF n \in ends
                                          THEN [walked[n] EXCEPT !.value = value]
                                          ELSE walked[n]],
              old   |-> walked[path].value]

\* Trie::insert: allocates the missing nodes along the nibbles, labels the
\* node that ends each char, and replaces the value of the last one.  With
\* no char in the key no label exists and the `expect` panics.
insert(trie, key, value) ==
    LET path     == as_nibbles(key)
        ends     == {as_nibbles(SubSeq(key, 1, n)) : n \in 1..Len(key)}
        nodes    == DOMAIN trie \cup Prefixes(path)
        walked   == [n \in nodes |->
                        LET old == IF n \in DOMAIN trie THEN trie[n] ELSE Unlabelled
                        IN  IF n \in ends THEN [old EXCEPT !.labelled = TRUE] ELSE old]
    IN  IF ~walked[path].labelled
        THEN [panic |-> TRUE, trie |-> walked, old |-> NoValue]
        ELSE [panic |-> FALSE,
              trie  |-> [walked EXCEPT ![path].value = value],
              old   |-> walked[path].value]

\* Trie::get
get(trie, key) ==
    LET path == as_nibbles(key)
    IN  IF path \in DOMAIN trie /\ trie[path].labelled THEN trie[path].value ELSE NoValue

\* Node::is_leaf for &Trie: the node carries a value.
trie_is_leaf(trie, path) == trie[path].value # NoValue

\* Trie::bytes: the (byte, grandchild) pairs below a node, the high nibble
\* in the outer position and the low nibble in the inner one, so in
\* ascending byte order.
RECURSIVE ascending(_)
ascending(pairs) ==
    IF pairs = {} THEN <<>>
    ELSE LET m == CHOOSE x \in pairs : \A y \in pairs : x.byte <= y.byte
         IN  <<m>> \o ascending(pairs \ {m})

bytes(trie, path) ==
    LET n == Len(path)
    IN  ascending({[byte |-> q[n + 1] * CHILDREN + q[n + 2], child |-> q] :
                     q \in {r \in DOMAIN trie : Len(r) = n + 2 /\ SubSeq(r, 1, n) = path}})

(***************************************************************************)
(* search/nest.rs: NestedNode.  `parent` is the chain of the NestedNodes   *)
(* crossed so far, the nearest first (the linked list the Rc's form); the  *)
(* root is the trie's root node.                                           *)
(***************************************************************************)
TrieRoot == <<>>

NestedNode_new(depth) == [curr |-> TrieRoot, parent |-> <<>>, depth |-> depth]

\* NestedNode::chain: from the current node to the root.
chain(node) == <<node.curr>> \o node.parent

nested_is_leaf(trie, node) == trie_is_leaf(trie, node.curr)

\* Node::children for NestedNode: the iterator's state.
nested_children(trie, node) == [node |-> node, children |-> bytes(trie, node.curr)]

\* A NestedNodeIter::next that moves to the root with no depth left, too.
RECURSIVE nested_iter_next_once_more(_, _)
nested_iter_next_once_more(trie, it) ==
    IF it.children # <<>>
    THEN [some |-> TRUE,
          byte |-> Head(it.children).byte,
          node |-> [curr   |-> Head(it.children).child,
                    parent |-> it.node.parent,
                    depth  |-> it.node.depth],
          it   |-> [it EXCEPT !.children = Tail(@)]]
    ELSE IF it.node.depth >= 0 /\ nested_is_leaf(trie, it.node)
    THEN LET respawn == [curr   |-> TrieRoot,
                         parent |-> chain(it.node),
                         depth  |-> it.node.depth - 1]
         IN  nested_iter_next_once_more(trie, [node |-> respawn,
                                               children |-> bytes(trie, respawn.curr)])
    ELSE [some |-> FALSE, byte |-> 0, node |-> it.node, it |-> it]

\* NestedNodeIter::next: the next child of the current trie node; once they
\* are exhausted and the node is a leaf with depth left, the iterator
\* moves to the root, with the leaf pushed on the chain, and goes on.
RECURSIVE nested_iter_next(_, _)
nested_iter_next(trie, it) ==
    IF it.children # <<>>
    THEN [some |-> TRUE,
          byte |-> Head(it.children).byte,
          node |-> [curr   |-> Head(it.children).child,
                    parent |-> it.node.parent,
                    depth  |-> it.node.depth],
          it   |-> [it EXCEPT !.children = Tail(@)]]
    ELSE IF it.node.depth > 0 /\ nested_is_leaf(trie, it.node)
    THEN LET respawn == [curr   |-> TrieRoot,
                         parent |-> chain(it.node),
                         depth  |-> it.node.depth - 1]
         IN  nested_iter_next(trie, [node |-> respawn,
                                     children |-> bytes(trie, respawn.curr)])
    ELSE [some |-> FALSE, byte |-> 0, node |-> it.node, it |-> it]

(***************************************************************************)
(* search/multi_dfa.rs: the stack of heads.  A head's position is either   *)
(* the node itself (pos = "This") or the iterator over its children.       *)
(***************************************************************************)
\* A head that takes every node it is put on for a match.
Head_born_accepting(node, state) ==
    [accepting |-> TRUE, state |-> state, pos |-> "This", node |-> node,
     children |-> [node |-> node, children |-> <<>>]]

Head_new(node, state) ==
    [accepting |-> FALSE, state |-> state, pos |-> "This", node |-> node,
     children |-> [node |-> node, children |-> <<>>]]

Head_accepting(node, state) == [Head_new(node, state) EXCEPT !.accepting = TRUE]

MultiHeadDFA_new(dfa, node) == <<Head_new(node, start_state(dfa))>>

Pop(heads) == SubSeq(heads, 1, Len(heads) - 1)

SetTop(heads, head) == [heads EXCEPT ![Len(heads)] = head]

NoItem(heads) == [some |-> FALSE, heads |-> heads, node |-> NestedNode_new(0), state |-> DEAD]

Item(heads, node, state) == [some |-> TRUE, heads |-> heads, node |-> node, state |-> state]

\* A turn of the loop of MultiHeadDFA::next either returns (done, with
\* what the call yields) or goes round again with the heads it left.
Return(item) == [done |-> TRUE, item |-> item]

Continue(heads) == [done |-> FALSE, item |-> NoItem(heads)]

\* MultiHeadDFA::next: one turn of its loop.
MultiHeadDFA_turn(dfa, trie, heads) ==
    IF heads = <<>> THEN Return(NoItem(heads))
    ELSE
    LET head == heads[Len(heads)]
    IN  IF head.pos = "This"
        THEN Let(SetTop(heads, [head EXCEPT !.pos = "Children",
                                            !.children = nested_children(trie, head.node)]),
                 LAMBDA heads1 :
             Let(IF head.accepting THEN head.state ELSE next_eoi_state(dfa, head.state),
                 LAMBDA state :
                 IF nested_is_leaf(trie, head.node) /\ (head.accepting \/ is_match_state(state))
                 THEN Return(Item(heads1, head.node, state))
                 ELSE Continue(heads1)))
        ELSE Let(nested_iter_next(trie, head.children), LAMBDA n :
             Let(SetTop(heads, [head EXCEPT !.children = n.it]), LAMBDA heads1 :
                 IF ~n.some THEN Continue(Pop(heads))
                 ELSE IF head.accepting
                 THEN Continue(Append(heads1, Head_accepting(n.node, head.state)))
                 ELSE Let(next_state(dfa, head.state, n.byte), LAMBDA state :
                          IF is_dead_state(state)
                          THEN Continue(heads1)
                          ELSE IF is_match_state(state)
                          THEN Continue(Append(heads1, Head_accepting(n.node, state)))
                          ELSE Continue(Append(heads1, Head_new(n.node, state))))))

\* The loop, run for 2^n turns at most and stopped at the first return.
RECURSIVE MultiHeadDFA_turns(_, _, _, _)
MultiHeadDFA_turns(dfa, trie, heads, n) ==
    IF n = 0 THEN MultiHeadDFA_turn(dfa, trie, heads)
    ELSE Let(MultiHeadDFA_turns(dfa, trie, heads, n - 1), LAMBDA r :
             IF r.done THEN r ELSE MultiHeadDFA_turns(dfa, trie, r.item.heads, n - 1))

\* The loop, run until it returns.
RECURSIVE MultiHeadDFA_loop(_, _, _, _)
MultiHeadDFA_loop(dfa, trie, heads, n) ==
    Let(MultiHeadDFA_turns(dfa, trie, heads, n), LAMBDA r :
        IF r.done THEN r.item ELSE MultiHeadDFA_loop(dfa, trie, r.item.heads, n + 1))

\* MultiHeadDFA::next: one call, up to its return.
MultiHeadDFA_next(dfa, trie, heads) == MultiHeadDFA_loop(dfa, trie, heads, 0)

(***************************************************************************)
(* librarian: a library is the sequence of its seeds' roots (seed i has    *)
(* index i), a librarian the sequence of its grams, a gram the indices of  *)
(* its seeds.                                                              *)
(***************************************************************************)
Word(index) == [kind |-> "Word", indices |-> <<index>>]

Sequence(indices) == [kind |-> "Sequence", indices |-> indices]

\* A degrade that leaves every gram as it is.
keep_sequence(lgram) == lgram

\* LibGram::degrade
degrade(lgram) ==
    IF lgram.kind = "Sequence" /\ Len(lgram.indices) = 1
    THEN Word(lgram.indices[1])
    ELSE lgram

\* FromIterator<&LibGram> for LibGram: the indices of the items, in order.
LibGram_from_iter(lgrams) ==
    degrade(Sequence(Concat([i \in 1..Len(lgrams) |-> lgrams[i].indices])))

\* The text of a gram: its root, or its seeds' roots joined.
gram_text(library, lgram) ==
    Concat([i \in 1..Len(lgram.indices) |-> library[lgram.indices[i]]])

\* From<&Library> for Librarian
Librarian_from(library) == [i \in 1..Len(library) |-> Word(i)]

\* Library::from_iter: the loop over the (root, count) pairs.  The index
\* counts the pairs taken so far (seed number k of the model is index k - 1
\* of the code); each root is inserted in the trie under its index and
\* pushed as a seed.  A panic of Trie::insert ends the construction.
RECURSIVE from_iter_loop(_, _, _, _, _)
from_iter_loop(iter, i, index, tr, roots) ==
    IF i > Len(iter) THEN [panic |-> FALSE, trie |-> tr, seeds |-> roots]
    ELSE Let(insert(tr, iter[i].root, index), LAMBDA r :
             IF r.panic THEN [panic |-> TRUE, trie |-> r.trie, seeds |-> roots]
             ELSE from_iter_loop(iter, i + 1, index + 1, r.trie,
                                 Append(roots, [root  |-> iter[i].root,
                                                index |-> index,
                                                count |-> iter[i].count])))

\* A construction that numbers a seed by what the trie holds for its root.
Library_from_trie(iter) ==
    Let(from_iter_loop(iter, 1, 1, TrieNew, <<>>), LAMBDA l :
        [l EXCEPT !.seeds = [k \in 1..Len(l.seeds) |->
                                [l.seeds[k] EXCEPT !.index = get(l.trie, l.seeds[k].root)]]])

\* Library::from_iter
Library_from_iter(iter) == from_iter_loop(iter, 1, 1, TrieNew, <<>>)

\* From<&Seed> for LibGram
LibGram_from(seed) == Word(seed.index)

\* From<&Library> for Librarian, of the seeds themselves
Librarian_from_seeds(seeds) == [k \in 1..Len(seeds) |-> LibGram_from(seeds[k])]

\* The roots of the seeds: the library as the queries read it.
roots_of(seeds) == [k \in 1..Len(seeds) |-> seeds[k].root]

\* The pairs a library of the given roots is collected from.
counted(roots) == [k \in 1..Len(roots) |-> [root |-> roots[k], count |-> 1]]

\* From<&Librarian> for Trie: every gram inserted under its text; the value
\* is the reference to the gram, here its position in the librarian.
RECURSIVE Trie_from_loop(_, _, _, _)
Trie_from_loop(library, grams, i, tr) ==
    IF i > Len(grams) THEN [panic |-> FALSE, trie |-> tr]
    ELSE Let(insert(tr, gram_text(library, grams[i]), i), LAMBDA r :
             IF r.panic THEN [panic |-> TRUE, trie |-> r.trie]
             ELSE Trie_from_loop(library, grams, i + 1, r.trie))

Trie_from(library, grams) == Trie_from_loop(library, grams, 1, TrieNew)

\* The iteration of a MultiHeadDFA to its end.
RECURSIVE collect(_, _, _, _)
collect(a, tr, hs, items) ==
    Let(MultiHeadDFA_next(a, tr, hs), LAMBDA r :
        IF r.some THEN collect(a, tr, r.heads, Append(items, [node |-> r.node, state |-> r.state]))
        ELSE items)

\* The gram search_trie builds from a yielded node: the values along its
\* chain, collected.
chain_gram(grams, tr, node) ==
    Let(chain(node), LAMBDA leaves :
        LibGram_from_iter([k \in 1..Len(leaves) |-> grams[tr[leaves[k]].value]]))

\* Librarian::search_trie_state
search_trie_state(grams, tr, a, d) ==
    Let(collect(a, tr, MultiHeadDFA_new(a, NestedNode_new(d)), <<>>), LAMBDA items :
        [i \in 1..Len(items) |->
            [gram |-> chain_gram(grams, tr, items[i].node), state |-> items[i].state]])

\* Librarian::search_trie
search_trie(grams, tr, a, d) ==
    Let(search_trie_state(grams, tr, a, d), LAMBDA found :
        [i \in 1..Len(found) |-> found[i].gram])

Ok(grams, n) == [kind |-> "ok", grams |-> grams, distance |-> n]

Err(e) == [kind |-> e, grams |-> <<>>, distance |-> 0]

\* Iterator::min_by_key: the first of the items whose key is least.
min_by_key(items, key(_)) ==
    Let([i \in 1..Len(items) |-> key(items[i])], LAMBDA keys :
        CHOOSE i \in 1..Len(items) :
            /\ \A j \in 1..Len(items) : keys[i] <= keys[j]
            /\ \A j \in 1..(i - 1) : keys[j] > keys[i])

\* Librarian::nearest
nearest(library, grams, q) ==
    Let(Trie_from(library, grams), LAMBDA t :
        IF t.panic THEN Err("panic")
        ELSE
    Let(levenshtein(q.pattern, 0..q.distance), LAMBDA a :
    Let(search_trie_state(grams, t.trie, a, 0), LAMBDA lgrams :
        IF lgrams = <<>> THEN Err("NoNearest")
        ELSE
    Let(lgrams[min_by_key(lgrams, LAMBDA it : dist_fn(a, it.state))].state, LAMBDA distance_id :
    Let(SelectSeq(lgrams, LAMBDA it : it.state = distance_id), LAMBDA kept :
        Ok([i \in 1..Len(kept) |-> kept[i].gram], dist_fn(a, distance_id)))))))

\* Librarian::distance
distance(library, grams, q) ==
    Let(Trie_from(library, grams), LAMBDA t :
        IF t.panic THEN Err("panic")
        ELSE IF q.strict
        THEN Let(levenshtein(q.pattern, 0..MaxOf(q.distances)), LAMBDA strict_a :
             Let(search_trie_state(grams, t.trie, strict_a, 0), LAMBDA lgrams :
             Let(SelectSeq(lgrams, LAMBDA it : dist_fn(strict_a, it.state) \in q.distances),
                 LAMBDA kept :
                 Ok([i \in 1..Len(kept) |-> kept[i].gram], 0))))
        ELSE Ok(search_trie(grams, t.trie, levenshtein(q.pattern, q.distances), 0), 0))

(***************************************************************************)
(* The regex queries.                                                      *)
(***************************************************************************)
\* A match of the pattern at the start of the text only.
re_is_match_at_start(pattern, text) ==
    /\ Len(pattern) <= Len(text)
    /\ \A k \in 1..Len(pattern) :
           IF is_dot(pattern[k]) THEN text[k] # 10 ELSE text[k] = pattern[k]

\* Regex::is_match: the pattern matches somewhere in the text.
re_is_match(pattern, text) ==
    \E i \in 0..(Len(text) - Len(pattern)) :
        \A k \in 1..Len(pattern) :
            IF is_dot(pattern[k]) THEN text[i + k] # 10 ELSE text[i + k] = pattern[k]

\* A flat search that tells the text of a Word only.
search_flat_words(library, grams, q, debug) ==
    IF debug /\ q.repeats # 0 THEN Err("panic")
    ELSE Ok(SelectSeq(grams, LAMBDA g :
                g.kind = "Word" /\ re_is_match(q.pattern, gram_text(library, g))), 0)

\* Librarian::search_flat
search_flat(library, grams, q, debug) ==
    IF debug /\ q.repeats # 0 THEN Err("panic")
    ELSE Ok(SelectSeq(grams, LAMBDA g : re_is_match(q.pattern, gram_text(library, g))), 0)

\* A deep search that never crosses a leaf.
search_deep_once(library, grams, q) ==
    Let(Trie_from(library, grams), LAMBDA t :
        IF t.panic THEN Err("panic")
        ELSE Ok(search_trie(grams, t.trie, regex(q.pattern), 0), 0))

\* Librarian::search_deep
search_deep(library, grams, q) ==
    Let(Trie_from(library, grams), LAMBDA t :
        IF t.panic THEN Err("panic")
        ELSE Ok(search_trie(grams, t.trie, regex(q.pattern), q.repeats), 0))

\* Librarian::search
search(library, grams, q, debug) ==
    IF q.repeats > 0 THEN search_deep(library, grams, q)
    ELSE search_flat(library, grams, q, debug)

\* Librarian::filter: the grams of the view the predicate holds of.  The
\* predicates are "true" and "word" (the gram is a single seed).
filter(grams, predicate) ==
    Ok(SelectSeq(grams, LAMBDA g : predicate = "true" \/ g.kind = "Word"), 0)

(***************************************************************************)
(* The anagram queries.  `debug` tells whether the build checks its        *)
(* debug_assert!s: a failed one panics there and is skipped otherwise.     *)
(* `order` is the order in which a HashMap hands out its values.           *)
(***************************************************************************)
RECURSIVE sorted(_)
sorted(s) ==
    IF s = <<>> THEN <<>>
    ELSE LET i == CHOOSE j \in 1..Len(s) : \A k \in 1..Len(s) : s[j] <= s[k]
         IN  <<s[i]>> \o sorted(RemoveAt(s, i))

\* anagram::histogram: the count of every char of a text.
histogram(s) == [c \in Range(s) |-> Count(s, c)]

count_in(h, c) == IF c \in DOMAIN h THEN h[c] ELSE 0

RECURSIVE Sum(_, _)
Sum(f, S) ==
    IF S = {} THEN 0
    ELSE LET x == CHOOSE y \in S : TRUE IN f[x] + Sum(f, S \ {x})

\* What the gram's histogram holds beyond the pattern's: the amount the
\* filters' loops take from the wildcards.
excess(h, ph) ==
    Sum([c \in DOMAIN h |-> IF count_in(ph, c) < h[c] THEN h[c] - count_in(ph, c) ELSE 0],
        DOMAIN h)

\* The key under which a gram is grouped: a Word's sorted chars, a
\* Sequence's chars as they come.
histogram_key(library, lgram) ==
    IF lgram.kind = "Word" THEN sorted(gram_text(library, lgram))
    ELSE gram_text(library, lgram)

histogram_keys(library, grams) == {histogram_key(library, grams[i]) : i \in 1..Len(grams)}

Orders(S) == {f \in [1..Cardinality(S) -> S] : \A i, j \in 1..Cardinality(S) : f[i] = f[j] => i = j}

\* into_values().filter(keep).flat_map(|anagram| anagram.grams)
grouped(library, grams, order, keep(_)) ==
    Concat([k \in 1..Len(order) |->
              IF keep(histogram(order[k]))
              THEN SelectSeq(grams, LAMBDA g : histogram_key(library, g) = order[k])
              ELSE <<>>])

\* anagram::exact
exact(library, grams, p, wildcards, order) ==
    grouped(library, grams, order,
            LAMBDA h : /\ \A c \in DOMAIN h : h[c] >= count_in(histogram(p), c)
                       /\ excess(h, histogram(p)) = wildcards)

\* A filter that is content with one of the characters.
atleast_some(library, grams, p, order) ==
    grouped(library, grams, order,
            LAMBDA h : \E c \in DOMAIN histogram(p) : count_in(h, c) >= histogram(p)[c])

\* anagram::atleast
atleast(library, grams, p, order) ==
    grouped(library, grams, order,
            LAMBDA h : \A c \in DOMAIN histogram(p) : count_in(h, c) >= histogram(p)[c])

\* Librarian::anagrams_flat: a Word is compared by its sorted chars, a
\* Sequence by its sorted bytes, both with the pattern's sorted chars.
anagrams_flat(library, grams, q, debug) ==
    IF debug /\ (q.wildcards # 0 \/ q.repeats # 0 \/ q.partial) THEN Err("panic")
    ELSE Let(sorted(q.pattern), LAMBDA pattern :
             Ok(SelectSeq(grams, LAMBDA g :
                    IF g.kind = "Word"
                    THEN sorted(gram_text(library, g)) = pattern
                    ELSE sorted(as_bytes(gram_text(library, g))) = as_bytes(pattern)), 0))

\* Librarian::anagrams_deep
anagrams_deep(library, grams, q, debug) ==
    IF debug /\ (q.wildcards # 0 \/ q.partial) THEN Err("panic")
    ELSE Let(Trie_from(library, grams), LAMBDA t :
             IF t.panic THEN Err("panic")
             ELSE IF anagram_filter_is_err(q.pattern) THEN Err("NFA")
             ELSE Ok(search_trie(grams, t.trie, anagram_filter(q.pattern), q.repeats), 0))

\* Librarian::anagrams_fast
anagrams_fast(library, grams, q, debug) ==
    IF debug /\ (Len(q.pattern) + q.wildcards >= 8 \/ q.wildcards # 0 \/ q.partial)
    THEN Err("panic")
    ELSE Let(Trie_from(library, grams), LAMBDA t :
             IF t.panic THEN Err("panic")
             ELSE Ok(search_trie(grams, t.trie, anagram(q.pattern), q.repeats), 0))

\* Librarian::anagrams_partial
anagrams_partial(library, grams, q, debug, order) ==
    IF debug /\ (q.wildcards # 0 \/ q.repeats # 0) THEN Err("panic")
    ELSE Ok(grouped(library, grams, order,
                    LAMBDA h : excess(h, histogram(sorted(q.pattern))) <= q.wildcards), 0)

\* Librarian::anagrams
anagrams(library, grams, q, debug, order) ==
    IF q.repeats > 0
    THEN IF q.wildcards > 0 \/ Len(q.pattern) + q.wildcards >= 8
         THEN Let(anagrams_deep(library, grams, q, debug), LAMBDA first_pass :
                  IF first_pass.kind # "ok" THEN first_pass
                  ELSE anagrams_flat(library, first_pass.grams, [q EXCEPT !.repeats = 0], debug))
         ELSE anagrams_fast(library, grams, q, debug)
    ELSE IF q.partial
    THEN anagrams_partial(library, grams, q, debug, order)
    ELSE anagrams_flat(library, grams, q, debug)

\* Librarian::has: the at-least filter over the grams of the view.
has(library, grams, q, order) == Ok(atleast(library, grams, q.pattern, order), 0)

(***************************************************************************)
(* gram.rs: the memoised edit distance.  The cache is keyed by the text    *)
(* "a#b"; a call answers from the cache when its key is there, and stores  *)
(* what it computed otherwise.  Lengths and slices are in bytes.           *)
(***************************************************************************)
HASH == 35

\* convert = format!("{}#{}", a, b)
cache_key(a, b) == a \o <<HASH>> \o b

\* s.len()
len(s) == Len(as_bytes(s))

\* &s[1..] panics unless byte 1 is a char boundary.
slice_panics(s) == Len(encode_utf8(s[1])) # 1

Returned(value, c) == [panic |-> FALSE, value |-> value, cache |-> c]

Panicked(c) == [panic |-> TRUE, value |-> 0, cache |-> c]

RECURSIVE gram_levenshtein(_, _, _), gram_levenshtein_body(_, _, _)
\* The body of gram::levenshtein, its inner calls going through the cache.
gram_levenshtein_body(a, b, c) ==
    IF len(b) = 0 THEN Returned(len(a), c)
    ELSE IF len(a) = 0 THEN Returned(len(b), c)
    ELSE IF a[1] = b[1]
    THEN IF slice_panics(a) THEN Panicked(c) ELSE gram_levenshtein(Tail(a), Tail(b), c)
    ELSE IF slice_panics(a) THEN Panicked(c)
    ELSE Let(gram_levenshtein(Tail(a), b, c), LAMBDA r1 :
         IF r1.panic \/ slice_panics(b) THEN Panicked(r1.cache)
         ELSE
         Let(gram_levenshtein(a, Tail(b), r1.cache), LAMBDA r2 :
         IF r2.panic THEN r2
         ELSE
         Let(gram_levenshtein(Tail(a), Tail(b), r2.cache), LAMBDA r3 :
         IF r3.panic THEN r3
         ELSE Returned(1 + Min(r1.value, Min(r2.value, r3.value)), r3.cache))))

\* gram::levenshtein as #[cached] wraps it.
gram_levenshtein(a, b, c) ==
    Let(cache_key(a, b), LAMBDA key :
        IF key \in DOMAIN c THEN Returned(c[key], c)
        ELSE Let(gram_levenshtein_body(a, b, c), LAMBDA r :
                 IF r.panic THEN r
                 ELSE [r EXCEPT !.cache = (key :> r.value) @@ r.cache]))

(***************************************************************************)
(* State.  An automaton under test (dfa) with the query that built it, a   *)
(* single run of it over an input text, and a walk of it over a trie; a    *)
(* trie with the calls of insert that returned; a library with the view a  *)
(* librarian holds of it, the number of views derived before this one,     *)
(* the query put to the librarian and what it answered.                    *)
(***************************************************************************)
VARIABLES pc, ctor, pattern, distances, dfa, input, fed, state,
          trie, inserted, depth, heads, yields,
          pairs, seeds, library, view, asked, query, answer, debug_assertions,
          cache, calls

vars == <<pc, ctor, pattern, distances, dfa, input, fed, state,
          trie, inserted, depth, heads, yields,
          pairs, seeds, library, view, asked, query, answer, debug_assertions,
          cache, calls>>

gramVars == <<cache, calls>>

automatonVars ==
    <<ctor, pattern, distances, dfa, input, fed, state, trie, inserted, depth, heads, yields>>

queryVars == <<pairs, seeds, library, view, asked, query, answer, debug_assertions>>

NoQuery ==
    [kind |-> "none", pattern |-> <<>>, distance |-> 0, distances |-> {}, strict |-> FALSE,
     wildcards |-> 0, repeats |-> 0, partial |-> FALSE, predicate |-> "none"]

NoAnswer == [kind |-> "none", grams |-> <<>>, distance |-> 0]

NoLibrarian ==
    /\ cache = <<>>
    /\ calls = <<>>
    /\ pairs = <<>>
    /\ seeds = <<>>
    /\ library = <<>>
    /\ view = <<>>
    /\ asked = 0
    /\ query = NoQuery
    /\ answer = NoAnswer
    /\ debug_assertions = FALSE

Patterns == StringsUpTo(MaxPatLen)

DistanceSets == SUBSET (0..MaxDist)

\* The automata the program builds: the constructor, its arguments, its
\* result.
Automata ==
    {[ctor |-> "levenshtein", pattern |-> p, distances |-> D, dfa |-> levenshtein(p, D)] :
        p \in Patterns, D \in DistanceSets}
    \cup {[ctor |-> "anagram", pattern |-> p, distances |-> {}, dfa |-> anagram(p)] :
        p \in Patterns}
    \cup {[ctor |-> "anagram_filter", pattern |-> p, distances |-> {}, dfa |-> anagram_filter(p)] :
        p \in {q \in Patterns : ~anagram_filter_is_err(q)}}
    \cup {[ctor |-> "regex", pattern |-> p, distances |-> {}, dfa |-> regex(p)] :
        p \in Patterns}

(***************************************************************************)
(* One run of an automaton: the bytes of a text, then end of input.        *)
(***************************************************************************)
InitRun ==
    /\ \E a \in Automata :
          /\ ctor = a.ctor
          /\ pattern = a.pattern
          /\ distances = a.distances
          /\ dfa = a.dfa
    /\ input \in StringsUpTo(MaxInLen)
    /\ pc = "start"
    /\ fed = 0
    /\ state = DEAD
    /\ trie = TrieNew
    /\ inserted = <<>>
    /\ depth = 0
    /\ heads = <<>>
    /\ yields = <<>>
    /\ NoLibrarian

Start ==
    /\ pc = "start"
    /\ state' = start_state(dfa)
    /\ pc' = "feed"
    /\ UNCHANGED <<gramVars, ctor, pattern, distances, dfa, input, fed, trie, inserted, depth, heads, yields, queryVars>>

Feed ==
    /\ pc = "feed"
    /\ fed < Len(input)
    /\ state' = next_state(dfa, state, input[fed + 1])
    /\ fed' = fed + 1
    /\ UNCHANGED <<gramVars, pc, ctor, pattern, distances, dfa, input, trie, inserted, depth, heads, yields, queryVars>>

Eoi ==
    /\ pc = "feed"
    /\ fed = Len(input)
    /\ state' = next_eoi_state(dfa, state)
    /\ pc' = "eoi"
    /\ UNCHANGED <<gramVars, ctor, pattern, distances, dfa, input, fed, trie, inserted, depth, heads, yields, queryVars>>

NextRun == Start \/ Feed \/ Eoi

SpecRun == InitRun /\ [][NextRun]_vars

(***************************************************************************)
(* One walk: MultiHeadDFA over NestedNode::new(trie, depth), called until  *)
(* it returns None.  The tries are those insert builds from a set of       *)
(* keys, the value of a key being its rank in the set.                     *)
(***************************************************************************)
RECURSIVE TrieOfKeys(_, _)
TrieOfKeys(keys, n) ==
    IF keys = {} THEN TrieNew
    ELSE LET k == CHOOSE x \in keys : TRUE
         IN  insert(TrieOfKeys(keys \ {k}, n + 1), k, n).trie

WalkKeys == StringsUpTo(MaxKeyLen) \ {<<>>}

WalkTries == {TrieOfKeys(K, 1) : K \in {S \in SUBSET WalkKeys : Cardinality(S) <= MaxKeys}}

WalkPatterns == {<<>>, <<97>>, <<97, 98>>}

WalkAutomata ==
    {[ctor |-> "levenshtein", pattern |-> p, distances |-> {0, 1}, dfa |-> levenshtein(p, {0, 1})] :
        p \in WalkPatterns}
    \cup {[ctor |-> "anagram", pattern |-> p, distances |-> {}, dfa |-> anagram(p)] :
        p \in WalkPatterns}
    \cup {[ctor |-> "anagram_filter", pattern |-> p, distances |-> {}, dfa |-> anagram_filter(p)] :
        p \in {q \in WalkPatterns : ~anagram_filter_is_err(q)}}
    \cup {[ctor |-> "regex", pattern |-> p, distances |-> {}, dfa |-> regex(p)] :
        p \in WalkPatterns}

Init ==
    /\ \E a \in WalkAutomata :
          /\ ctor = a.ctor
          /\ pattern = a.pattern
          /\ distances = a.distances
          /\ dfa = a.dfa
    /\ trie \in WalkTries
    /\ inserted = <<>>
    /\ depth \in 0..MaxDepth
    /\ pc = "new"
    /\ heads = <<>>
    /\ yields = <<>>
    /\ input = <<>>
    /\ fed = 0
    /\ state = DEAD
    /\ NoLibrarian

\* MultiHeadDFA::new(dfa, Nest::new(trie, depth))
New ==
    /\ pc = "new"
    /\ heads' = MultiHeadDFA_new(dfa, NestedNode_new(depth))
    /\ pc' = "iterate"
    /\ UNCHANGED <<gramVars, ctor, pattern, distances, dfa, input, fed, state, trie, inserted, depth, yields, queryVars>>

\* One call of MultiHeadDFA::next; the item it returns is recorded.
Iterate ==
    /\ pc = "iterate"
    /\ LET r == MultiHeadDFA_next(dfa, trie, heads)
       IN  /\ heads' = r.heads
           /\ yields' = IF r.some THEN Append(yields, [node |-> r.node, state |-> r.state])
                        ELSE yields
           /\ pc' = IF r.some THEN "iterate" ELSE "done"
    /\ UNCHANGED <<gramVars, ctor, pattern, distances, dfa, input, fed, state, trie, inserted, depth, queryVars>>

Next == New \/ Iterate

Spec == Init /\ [][Next]_vars

(***************************************************************************)
(* One query put to a librarian over the whole of its library.             *)
(***************************************************************************)
Roots == {<<97>>, <<98>>, <<97, 98>>, <<98, 97>>}

RECURSIVE SeqsUpTo(_, _)
SeqsUpTo(S, n) ==
    IF n = 0 THEN {<<>>}
    ELSE SeqsUpTo(S, n - 1) \cup {Append(s, x) : s \in {r \in SeqsUpTo(S, n - 1) : Len(r) = n - 1}, x \in S}

Libraries == SeqsUpTo(Roots, MaxSeeds)

QueryPatterns == {<<97>>, <<98>>, <<97, 98>>}

\* The patterns of a Match query: the empty one, any character, texts.
SearchPatterns == {<<>>, <<46>>, <<97>>, <<97, 98>>}

\* The characters of a Has query: a character may be asked for twice.
HasCharacters == QueryPatterns \cup {<<97, 97>>}

InitQuery ==
    /\ cache = <<>>
    /\ calls = <<>>
    /\ library \in Libraries
    /\ pairs = counted(library)
    /\ seeds = Library_from_iter(pairs).seeds
    /\ view = Librarian_from(library)
    /\ debug_assertions \in BOOLEAN
    /\ asked = 0
    /\ query = NoQuery
    /\ answer = NoAnswer
    /\ pc = "ready"
    /\ ctor = "none"
    /\ pattern = <<>>
    /\ distances = {}
    /\ dfa = anagram(<<>>)
    /\ input = <<>>
    /\ fed = 0
    /\ state = DEAD
    /\ trie = TrieNew
    /\ inserted = <<>>
    /\ depth = 0
    /\ heads = <<>>
    /\ yields = <<>>

\* Librarian::nearest
Nearest ==
    /\ pc = "ready"
    /\ \E p \in QueryPatterns, d \in 0..MaxDist :
          /\ query' = [NoQuery EXCEPT !.kind = "nearest", !.pattern = p, !.distance = d]
          /\ answer' = nearest(library, view, query')
    /\ pc' = "answered"
    /\ UNCHANGED <<gramVars, automatonVars, pairs, seeds, library, view, asked, debug_assertions>>

\* Librarian::distance
Distance ==
    /\ pc = "ready"
    /\ \E p \in QueryPatterns, D \in DistanceSets, strict \in BOOLEAN :
          /\ query' = [NoQuery EXCEPT !.kind = "distance", !.pattern = p, !.distances = D,
                                      !.strict = strict]
          /\ answer' = distance(library, view, query')
    /\ pc' = "answered"
    /\ UNCHANGED <<gramVars, automatonVars, pairs, seeds, library, view, asked, debug_assertions>>

\* Librarian::anagrams
Anagrams ==
    /\ pc = "ready"
    /\ \E p \in QueryPatterns, w \in 0..MaxWildcards, r \in 0..MaxDepth, partial \in BOOLEAN,
          order \in Orders(histogram_keys(library, view)) :
          /\ query' = [NoQuery EXCEPT !.kind = "anagrams", !.pattern = p, !.wildcards = w,
                                      !.repeats = r, !.partial = partial]
          /\ answer' = anagrams(library, view, query', debug_assertions, order)
    /\ pc' = "answered"
    /\ UNCHANGED <<gramVars, automatonVars, pairs, seeds, library, view, asked, debug_assertions>>

\* anagram::exact over the grams of the view.
Exact ==
    /\ pc = "ready"
    /\ \E p \in QueryPatterns, w \in 0..MaxWildcards,
          order \in Orders(histogram_keys(library, view)) :
          /\ query' = [NoQuery EXCEPT !.kind = "exact", !.pattern = p, !.wildcards = w]
          /\ answer' = Ok(exact(library, view, p, w, order), 0)
    /\ pc' = "answered"
    /\ UNCHANGED <<gramVars, automatonVars, pairs, seeds, library, view, asked, debug_assertions>>

\* Librarian::search
Search ==
    /\ pc = "ready"
    /\ \E p \in SearchPatterns, r \in 0..MaxDepth :
          /\ query' = [NoQuery EXCEPT !.kind = "search", !.pattern = p, !.repeats = r]
          /\ answer' = search(library, view, query', debug_assertions)
    /\ pc' = "answered"
    /\ UNCHANGED <<gramVars, automatonVars, pairs, seeds, library, view, asked, debug_assertions>>

\* Librarian::has
Has ==
    /\ pc = "ready"
    /\ \E p \in HasCharacters, order \in Orders(histogram_keys(library, view)) :
          /\ query' = [NoQuery EXCEPT !.kind = "has", !.pattern = p]
          /\ answer' = has(library, view, query', order)
    /\ pc' = "answered"
    /\ UNCHANGED <<gramVars, automatonVars, pairs, seeds, library, view, asked, debug_assertions>>

NextQuery == Nearest \/ Distance \/ Anagrams \/ Exact \/ Has \/ Search

SpecQuery == InitQuery /\ [][NextQuery]_vars

(***************************************************************************)
(* A session: queries put to a librarian, the view of an answer taken as   *)
(* the librarian of the next query.  The roots hold a two-byte character,  *)
(* and a root that two other roots spell together.                         *)
(***************************************************************************)
SessionRoots == {<<97>>, <<233>>, <<97, 233>>}

\* The libraries of a session: some of the seeds, in the order of the list.
SessionSeeds == <<<<97>>, <<233>>, <<97, 233>>>>

SessionLibraries ==
    {l \in SeqsUpTo(SessionRoots, MaxSeeds) : IsSubsequence(l, SessionSeeds)}

SessionPatterns == {<<97>>, <<97, 233>>, <<233, 97>>}

InitSession ==
    /\ cache = <<>>
    /\ calls = <<>>
    /\ library \in SessionLibraries
    /\ pairs = counted(library)
    /\ seeds = Library_from_iter(pairs).seeds
    /\ view = Librarian_from(library)
    /\ debug_assertions = TRUE
    /\ asked = 0
    /\ query = NoQuery
    /\ answer = NoAnswer
    /\ pc = "ready"
    /\ ctor = "none"
    /\ pattern = <<>>
    /\ distances = {}
    /\ dfa = anagram(<<>>)
    /\ input = <<>>
    /\ fed = 0
    /\ state = DEAD
    /\ trie = TrieNew
    /\ inserted = <<>>
    /\ depth = 0
    /\ heads = <<>>
    /\ yields = <<>>

\* Librarian::search with a pattern of the session
Match ==
    /\ pc = "ready"
    /\ \E p \in SearchPatterns \cup SessionPatterns, r \in 0..MaxDepth :
          /\ query' = [NoQuery EXCEPT !.kind = "search", !.pattern = p, !.repeats = r]
          /\ answer' = search(library, view, query', debug_assertions)
    /\ pc' = "answered"
    /\ UNCHANGED <<gramVars, automatonVars, pairs, seeds, library, view, asked, debug_assertions>>

\* Librarian::anagrams with query::Anagram::new(pattern): no wildcards,
\* depth 0, not partial; no HashMap is built.
Anagram ==
    /\ pc = "ready"
    /\ \E p \in SessionPatterns :
          /\ query' = [NoQuery EXCEPT !.kind = "anagrams", !.pattern = p]
          /\ answer' = anagrams(library, view, query', debug_assertions, <<>>)
    /\ pc' = "answered"
    /\ UNCHANGED <<gramVars, automatonVars, pairs, seeds, library, view, asked, debug_assertions>>

\* Librarian::filter
Filter ==
    /\ pc = "ready"
    /\ \E predicate \in {"true", "word"} :
          /\ query' = [NoQuery EXCEPT !.kind = "filter", !.predicate = predicate]
          /\ answer' = filter(view, predicate)
    /\ pc' = "answered"
    /\ UNCHANGED <<gramVars, automatonVars, pairs, seeds, library, view, asked, debug_assertions>>

\* The view of the answer becomes the librarian the next query is put to.
Refine ==
    /\ pc = "answered"
    /\ answer.kind = "ok"
    /\ asked < MaxRefinements
    /\ Len(answer.grams) <= MaxView
    /\ view' = answer.grams
    /\ asked' = asked + 1
    /\ query' = NoQuery
    /\ answer' = NoAnswer
    /\ pc' = "ready"
    /\ UNCHANGED <<gramVars, automatonVars, pairs, seeds, library, debug_assertions>>

NextSession == Match \/ Anagram \/ Filter \/ Refine

SpecSession == InitSession /\ [][NextSession]_vars

(***************************************************************************)
(* One process calling gram::levenshtein: the cache lives as long as the   *)
(* process.                                                                *)
(***************************************************************************)
GramTexts == {<<>>, <<97>>, <<35>>, <<97, 35>>, <<35, 97>>, <<233>>}

InitGram ==
    /\ pc = "gram"
    /\ ctor = "none"
    /\ pattern = <<>>
    /\ distances = {}
    /\ dfa = anagram(<<>>)
    /\ input = <<>>
    /\ fed = 0
    /\ state = DEAD
    /\ trie = TrieNew
    /\ inserted = <<>>
    /\ depth = 0
    /\ heads = <<>>
    /\ yields = <<>>
    /\ NoLibrarian

\* gram::levenshtein(a, b); a panic ends the process.
Levenshtein ==
    /\ pc = "gram"
    /\ Len(calls) < MaxCalls
    /\ \E a \in GramTexts, b \in GramTexts :
          LET r == gram_levenshtein(a, b, cache)
          IN  /\ cache' = r.cache
              /\ calls' = Append(calls, [a |-> a, b |-> b, panic |-> r.panic, value |-> r.value])
              /\ pc' = IF r.panic THEN "panicked" ELSE "gram"
    /\ UNCHANGED <<automatonVars, queryVars>>

NextGram == Levenshtein

SpecGram == InitGram /\ [][NextGram]_vars

(***************************************************************************)
(* The construction of a library and of its first librarian.               *)
(***************************************************************************)
LibraryRoots == Roots \cup {<<>>}

LibraryPairs == {[root |-> r, count |-> c] : r \in LibraryRoots, c \in 1..MaxValue}

InitLibrary ==
    /\ pc = "start"
    /\ ctor = "none"
    /\ pattern = <<>>
    /\ distances = {}
    /\ dfa = anagram(<<>>)
    /\ input = <<>>
    /\ fed = 0
    /\ state = DEAD
    /\ trie = TrieNew
    /\ inserted = <<>>
    /\ depth = 0
    /\ heads = <<>>
    /\ yields = <<>>
    /\ NoLibrarian

\* Library::from_iter(pairs); a panic leaves no library.
FromIter ==
    /\ pc = "start"
    /\ \E iter \in SeqsUpTo(LibraryPairs, MaxSeeds) :
          LET l == Library_from_iter(iter)
          IN  /\ pairs' = iter
              /\ trie' = IF l.panic THEN trie ELSE l.trie
              /\ seeds' = IF l.panic THEN seeds ELSE l.seeds
              /\ library' = IF l.panic THEN library ELSE roots_of(l.seeds)
              /\ pc' = IF l.panic THEN "panicked" ELSE "library"
    /\ UNCHANGED <<gramVars, ctor, pattern, distances, dfa, input, fed, state, inserted, depth, heads,
                   yields, view, asked, query, answer, debug_assertions>>

\* Librarian::from(&library)
From ==
    /\ pc = "library"
    /\ view' = Librarian_from_seeds(seeds)
    /\ pc' = "ready"
    /\ UNCHANGED <<gramVars, automatonVars, pairs, seeds, library, asked, query, answer, debug_assertions>>

NextLibrary == FromIter \/ From

SpecLibrary == InitLibrary /\ [][NextLibrary]_vars

(***************************************************************************)
(* One trie under a sequence of calls of insert.  The keys hold a key and  *)
(* its extension, the empty key, and a key of a two-byte character; the    *)
(* values are the numbers from 1.  `inserted` records the calls that       *)
(* returned: the key, the value, and the value the call handed back.       *)
(***************************************************************************)
TrieTexts == {<<>>, <<97>>, <<98>>, <<97, 98>>, <<233>>}

InitTrie ==
    /\ trie = TrieNew
    /\ inserted = <<>>
    /\ pc = "trie"
    /\ ctor = "none"
    /\ pattern = <<>>
    /\ distances = {}
    /\ dfa = anagram(<<>>)
    /\ input = <<>>
    /\ fed = 0
    /\ state = DEAD
    /\ depth = 0
    /\ heads = <<>>
    /\ yields = <<>>
    /\ NoLibrarian

\* Trie::insert(key, value); a panic ends the use of the trie.
Insert ==
    /\ pc = "trie"
    /\ Len(inserted) < MaxInserts
    /\ \E key \in TrieTexts, value \in 1..MaxValue :
          LET r == insert(trie, key, value)
          IN  /\ trie' = r.trie
              /\ inserted' = IF r.panic THEN inserted
                              ELSE Append(inserted, [key |-> key, value |-> value, old |-> r.old])
              /\ pc' = IF r.panic THEN "panicked" ELSE "trie"
    /\ UNCHANGED <<gramVars, ctor, pattern, distances, dfa, input, fed, state, depth, heads, yields,
                   queryVars>>

NextTrie == Insert

SpecTrie == InitTrie /\ [][NextTrie]_vars

(***************************************************************************)
(* What a walk should yield, said without the walk: the tree the Node      *)
(* interface spans, the bytes a node spells, and the automaton run over a  *)
(* text on its own.                                                        *)
(***************************************************************************)
from_nibbles(path) ==
    [i \in 1..(Len(path) \div 2) |-> path[2 * i - 1] * CHILDREN + path[2 * i]]

\* The bytes from the root of the walk to a node: the keys of the leaves
\* crossed, the first crossed first, then the node's own path.
node_bytes(node) ==
    Concat([i \in 1..Len(node.parent) |-> from_nibbles(node.parent[Len(node.parent) + 1 - i])])
        \o from_nibbles(node.curr)

RECURSIVE Drain(_, _)
Drain(tr, it) ==
    LET n == nested_iter_next(tr, it)
    IN  IF n.some THEN {n.node} \cup Drain(tr, n.it) ELSE {}

RECURSIVE Descendants(_, _)
Descendants(tr, node) ==
    {node} \cup UNION {Descendants(tr, c) : c \in Drain(tr, nested_children(tr, node))}

\* A search of the automaton over a text finds a match: some state of the
\* run, the one after end of input included, is a match state.
RECURSIVE Finds(_, _, _, _)
Finds(a, s, text, i) ==
    \/ is_match_state(s)
    \/ IF i > Len(text) THEN is_match_state(next_eoi_state(a, s))
       ELSE Finds(a, next_state(a, s, text[i]), text, i + 1)

Accepts(a, text) == Finds(a, start_state(a), text, 1)

Yielded == {yields[i].node : i \in 1..Len(yields)}

\* C1: every pair (node, state) a walk yields has the bytes from the root
\* to the node accepted by the automaton, the node a leaf, and the state a
\* match state.  Stated of the pair yielded last: every pair is the last
\* one in the state its call of next returns to.
C1_Soundness ==
    yields # <<>>
        => LET y == yields[Len(yields)]
           IN  /\ Accepts(dfa, node_bytes(y.node))
               /\ nested_is_leaf(trie, y.node)
               /\ is_match_state(y.state)

\* A pair yielded below a crossed leaf by a head that was accepting, and a
\* pair yielded on the match that end of input gives.
C1_Witness ==
    /\ ctor = "regex"
    /\ \E i \in 1..Len(yields) :
          /\ yields[i].node.parent # <<>>
          /\ yields[i].state.nfa = <<>>
    /\ \E i \in 1..Len(yields) :
          /\ yields[i].node.parent = <<>>
          /\ ~Accepts(dfa, SubSeq(node_bytes(yields[i].node), 1,
                                  Len(node_bytes(yields[i].node)) - 1))

\* C2: when a walk has ended, the nodes it yielded are the leaves of the
\* tree whose bytes the automaton accepts, each of them yielded once.
C2_Completeness ==
    pc = "done"
        => /\ Yielded = {n \in Descendants(trie, NestedNode_new(depth)) :
                            nested_is_leaf(trie, n) /\ Accepts(dfa, node_bytes(n))}
           /\ \A i, j \in 1..Len(yields) : yields[i].node = yields[j].node => i = j

\* A key that is a proper prefix of another key, both accepted and yielded.
C2_Witness ==
    /\ pc = "done"
    /\ \E i, j \in 1..Len(yields) :
          /\ yields[i].node.parent = yields[j].node.parent
          /\ Len(yields[i].node.curr) < Len(yields[j].node.curr)
          /\ SubSeq(yields[j].node.curr, 1, Len(yields[i].node.curr)) = yields[i].node.curr
    /\ \E n \in Descendants(trie, NestedNode_new(depth)) :
          nested_is_leaf(trie, n) /\ n \notin Yielded

TrieKeys(tr) == {from_nibbles(q) : q \in {r \in DOMAIN tr : tr[r].value # NoValue}}

RECURSIVE Tuples(_, _)
Tuples(keys, n) ==
    IF n = 0 THEN {<<>>}
    ELSE {<<k>> \o tu : k \in keys, tu \in Tuples(keys, n - 1)}

TuplesUpTo(keys, n) == UNION {Tuples(keys, k) : k \in 1..n}

\* The keys of the nodes chain() lists, in the order it lists them.
chain_keys(node) == [i \in 1..Len(chain(node)) |-> from_nibbles(chain(node)[i])]

\* C3: when a walk of depth d has ended, the chains of the yielded nodes
\* are exactly the ordered tuples of 1 to d+1 inserted keys whose
\* concatenated bytes the automaton accepts.
C3_NestedConcatenation ==
    pc = "done"
        => {chain_keys(n) : n \in Yielded}
             = {tu \in TuplesUpTo(TrieKeys(trie), depth + 1) : Accepts(dfa, Concat(tu))}

(***************************************************************************)
(* Edit distances, by their definitions.                                   *)
(***************************************************************************)
\* The Levenshtein distance of s and t.
RECURSIVE Lev(_, _)
Lev(s, t) ==
    IF s = <<>> THEN Len(t)
    ELSE IF t = <<>> THEN Len(s)
    ELSE Min(Lev(Tail(s), Tail(t)) + (IF Head(s) = Head(t) THEN 0 ELSE 1),
             Min(Lev(Tail(s), t) + 1, Lev(s, Tail(t)) + 1))

\* p can be turned into s by exactly d operations: an insertion of any
\* character, a deletion of a character of p, a substitution of a character
\* of p by any character (the same one included).
RECURSIVE ExactOps(_, _, _)
ExactOps(p, s, d) ==
    /\ d >= 0
    /\ \/ p = <<>> /\ s = <<>> /\ d = 0
       \/ p # <<>> /\ s # <<>> /\ Head(p) = Head(s) /\ ExactOps(Tail(p), Tail(s), d)
       \/ p # <<>> /\ s # <<>> /\ ExactOps(Tail(p), Tail(s), d - 1)
       \/ p # <<>> /\ ExactOps(Tail(p), s, d - 1)
       \/ s # <<>> /\ ExactOps(p, Tail(s), d - 1)

MinOf(S) == CHOOSE m \in S : \A x \in S : m <= x

RunEnded(c) == pc = "eoi" /\ ctor = c

\* C4: for the automaton of levenshtein(p, 0..=max), an input is accepted
\* iff its Levenshtein distance to p is at most max, and dist_fn at the
\* accepting state is that distance.
C4_LevenshteinRecovery ==
    (RunEnded("levenshtein") /\ distances = 0..MaxOf(distances))
        => /\ is_match_state(state) <=> Lev(input, pattern) <= MaxOf(distances)
           /\ is_match_state(state) => dist_fn(dfa, state) = Lev(input, pattern)

\* C7: for the automaton of levenshtein(p, D), an input is accepted iff p
\* can be turned into it by exactly d operations for some d in D, and
\* dist_fn is the smallest such d.
C7_LayerSemantics ==
    RunEnded("levenshtein")
        => LET ds == {d \in distances : ExactOps(pattern, input, d)}
           IN  /\ is_match_state(state) <=> ds # {}
               /\ is_match_state(state) => dist_fn(dfa, state) = MinOf(ds)

Answered(kind) == pc = "answered" /\ query.kind = kind

DistinctRoots == \A i, j \in 1..Len(library) : library[i] = library[j] => i = j

ViewText(i) == gram_text(library, view[i])

\* The state an automaton ends in on a text followed by end of input.
RECURSIVE RunFrom(_, _, _, _)
RunFrom(a, s, text, i) ==
    IF i > Len(text) THEN next_eoi_state(a, s)
    ELSE RunFrom(a, next_state(a, s, text[i]), text, i + 1)

\* g holds every character of p at least as often as p does, and w
\* characters more.
ExactAnagram(g, p, w) ==
    /\ Len(g) = Len(p) + w
    /\ \A c \in Range(p) : Count(g, c) >= Count(p, c)

\* C5: over a library of distinct roots, when some gram of the view is
\* within distance d of the pattern, nearest answers the least Levenshtein
\* distance of a gram to the pattern and exactly the grams at that distance.
C5_Nearest ==
    (/\ Answered("nearest")
     /\ DistinctRoots
     /\ \E i \in 1..Len(view) : Lev(ViewText(i), query.pattern) <= query.distance)
        => LET m == MinOf({Lev(ViewText(i), query.pattern) : i \in 1..Len(view)})
           IN  /\ answer.kind = "ok"
               /\ answer.distance = m
               /\ Range(answer.grams)
                    = {view[i] : i \in {j \in 1..Len(view) : Lev(ViewText(j), query.pattern) = m}}

\* C6: distance with strict = true answers exactly the grams of the view
\* whose text the automaton of 0..=max(distances) accepts with a recorded
\* distance that is one of the distances.
C6_StrictDistance ==
    (Answered("distance") /\ query.strict)
        => LET a      == levenshtein(query.pattern, 0..MaxOf(query.distances))
               end(i) == RunFrom(a, start_state(a), ViewText(i), 1)
           IN  /\ answer.kind = "ok"
               /\ Range(answer.grams)
                    = {view[i] : i \in {j \in 1..Len(view) :
                                          /\ is_match_state(end(j))
                                          /\ dist_fn(a, end(j)) \in query.distances}}

\* C9: over a library of distinct roots, a nested anagram query of depth
\* d > 0 answers exactly the sequences of 1 to d+1 grams of the view whose
\* joined text is an exact anagram of the pattern with w wildcards.
C9_NestedAnagrams ==
    (/\ Answered("anagrams")
     /\ query.repeats > 0
     /\ ~query.partial
     /\ DistinctRoots)
        => /\ answer.kind = "ok"
           /\ Range(answer.grams)
                = {LibGram_from_iter([k \in 1..Len(tu) |-> view[tu[k]]]) :
                     tu \in {v \in TuplesUpTo(1..Len(view), query.repeats + 1) :
                               ExactAnagram(Concat([k \in 1..Len(v) |-> ViewText(v[k])]),
                                            query.pattern, query.wildcards)}}

\* C10: at depth 0 with partial = false, a gram is kept iff it is as long
\* as the pattern and the wildcards together and holds every character of
\* the pattern at least as often as the pattern does.
C10_ExactFilter ==
    (\/ Answered("exact")
     \/ Answered("anagrams") /\ query.repeats = 0 /\ ~query.partial)
        => /\ answer.kind = "ok"
           /\ Range(answer.grams)
                = {view[i] : i \in {j \in 1..Len(view) :
                                      ExactAnagram(ViewText(j), query.pattern, query.wildcards)}}

(***************************************************************************)
(* The flat anagram filters, said by the counts of characters.             *)
(***************************************************************************)
\* The characters g holds beyond those of p: the sum over the characters c
\* of g of max(0, count_g(c) - count_p(c)).
TotalExcess(g, p) ==
    Sum([c \in Range(g) |-> IF Count(g, c) > Count(p, c) THEN Count(g, c) - Count(p, c) ELSE 0],
        Range(g))

\* C11: at depth 0 with partial = true and w wildcards, a gram is kept iff
\* the total excess of its text over the pattern is at most w.
C11_PartialFilter ==
    (Answered("anagrams") /\ query.repeats = 0 /\ query.partial)
        => /\ answer.kind = "ok"
           /\ Range(answer.grams)
                = {view[i] : i \in {j \in 1..Len(view) :
                                      TotalExcess(ViewText(j), query.pattern) <= query.wildcards}}

\* The same without the wildcards, and with them in a build that leaves
\* debug assertions out.
C11_PartialFilterRelease ==
    (Answered("anagrams") /\ query.repeats = 0 /\ query.partial
        /\ (query.wildcards = 0 \/ ~debug_assertions))
        => /\ answer.kind = "ok"
           /\ Range(answer.grams)
                = {view[i] : i \in {j \in 1..Len(view) :
                                      TotalExcess(ViewText(j), query.pattern) <= query.wildcards}}

Latest(done, k) ==
    LET at == {i \in 1..Len(done) : done[i].key = k}
    IN  IF at = {} THEN NoValue ELSE done[CHOOSE i \in at : \A j \in at : j <= i].value

\* The keys asked of get: those inserted, their prefixes and extensions.
GetTexts == TrieTexts \cup {<<98, 97>>, <<97, 98, 97>>, <<195>>}

\* C14: get of a key returns the value most recently inserted under it,
\* and none for a key never inserted, the proper prefixes of inserted keys
\* among them.
C14_RoundTrip == \A k \in GetTexts : get(trie, k) = Latest(inserted, k)

\* "ab" was inserted, then "a" twice: "a" holds the later value, "ab" its
\* own, and "b" none.
C14_Witness ==
    /\ Len(inserted) = 3
    /\ inserted[1].key = <<97, 98>>
    /\ inserted[2].key = <<97>>
    /\ inserted[3].key = <<97>>
    /\ inserted[2].value # inserted[3].value
    /\ get(trie, <<97>>) = inserted[3].value
    /\ get(trie, <<97, 98>>) = inserted[1].value

\* C15: a call of insert hands back the value stored under its key before
\* the call, none on the first insertion of the key, and leaves the value
\* of every other key as it was.
C15_InsertEffect ==
    [][inserted' # inserted
          => LET call == inserted'[Len(inserted')]
             IN  /\ call.old = Latest(inserted, call.key)
                 /\ \A k \in GetTexts \ {call.key} : get(trie', k) = get(trie, k)]_vars

\* A call that replaced a value while other keys were stored.
C15_Witness ==
    /\ Len(inserted) = 3
    /\ inserted[3].old # NoValue
    /\ inserted[3].old # inserted[3].value
    /\ inserted[2].key # inserted[3].key
    /\ inserted[1].key = inserted[3].key

\* Every root of the library holds a character.
NonEmptyRoots == \A i \in 1..Len(library) : library[i] # <<>>

\* C16: over a library of n non-empty, distinct roots, the search for "."
\* with depth 1 on the initial view answers n + n^2 grams: every seed as a
\* Word and every ordered pair of seeds as a Sequence of two.
C16_AllSingletonsAndPairs ==
    (/\ Answered("search")
     /\ asked = 0
     /\ query.pattern = <<46>>
     /\ query.repeats = 1
     /\ DistinctRoots
     /\ NonEmptyRoots)
        => LET n == Len(library)
           IN  /\ answer.kind = "ok"
               /\ Len(answer.grams) = n + n * n
               /\ Range(answer.grams)
                    = {Word(i) : i \in 1..n} \cup {Sequence(<<i, j>>) : i, j \in 1..n}

\* Two seeds, one a prefix of the other: six grams.
C16_Witness ==
    /\ Answered("search")
    /\ query.pattern = <<46>>
    /\ query.repeats = 1
    /\ library = << <<97>>, <<97, 98>> >>
    /\ Len(answer.grams) = 6

\* C17: the chain of a yielded node lists the crossed leaves from the root
\* to the current one: its last element is the current leaf, and the keys
\* it lists, joined in its order, are the bytes the automaton consumed.
\* Stated of the node yielded last.
C17_ChainOrder ==
    yields # <<>>
        => LET n == yields[Len(yields)].node
           IN  /\ chain(n)[Len(chain(n))] = n.curr
               /\ Concat(chain_keys(n)) = node_bytes(n)

(***************************************************************************)
(* The order of an answer.                                                 *)
(***************************************************************************)
\* The query of the state put once more to the same view, the HashMap of
\* the second call handing out its values in the given order.
Repeated(order) ==
    IF query.kind = "search" THEN search(library, view, query, debug_assertions)
    ELSE IF query.kind = "anagrams" THEN anagrams(library, view, query, debug_assertions, order)
    ELSE IF query.kind = "exact" THEN Ok(exact(library, view, query.pattern, query.wildcards, order), 0)
    ELSE has(library, view, query, order)

\* C18: the answer of a depth-0 query (match, anagram, exact, has) lists
\* the grams it keeps in the order the view lists them, and the query
\* repeated on the same view answers the same sequence.
C18_FlatOrder ==
    (/\ pc = "answered"
     /\ query.kind \in {"search", "anagrams", "exact", "has"}
     /\ query.repeats = 0
     /\ answer.kind = "ok")
        => /\ IsSubsequence(answer.grams, view)
           /\ \A order \in Orders(histogram_keys(library, view)) : Repeated(order) = answer


\* C13: a flat anagram query (depth 0, no wildcards, not partial) keeps a
\* gram exactly when the multiset of the bytes of its text (a Sequence's
\* text is its seeds' roots joined) equals that of the pattern's bytes, be
\* the gram a Word or a Sequence.
C13_FlatAnagram ==
    (Answered("anagrams") /\ query.repeats = 0 /\ query.wildcards = 0 /\ ~query.partial)
    => /\ answer.kind = "ok"
       /\ answer.grams
            = SelectSeq(view, LAMBDA g : SameSorted(as_bytes(gram_text(library, g)),
                                                    as_bytes(query.pattern)))

\* C13 without the claim that a Sequence is treated as a Word is: every
\* kept gram has the bytes of the pattern, and every Word that has them is
\* kept.
C13_FlatAnagramWords ==
    (Answered("anagrams") /\ query.repeats = 0 /\ query.wildcards = 0 /\ ~query.partial)
    => /\ answer.kind = "ok"
       /\ IsSubsequence(answer.grams, view)
       /\ \A i \in 1..Len(view) :
             LET same == SameSorted(as_bytes(gram_text(library, view[i])),
                                    as_bytes(query.pattern))
             IN  /\ (\E j \in 1..Len(answer.grams) : answer.grams[j] = view[i]) => same
                 /\ (same /\ view[i].kind = "Word")
                        => \E j \in 1..Len(answer.grams) : answer.grams[j] = view[i]

\* A flat anagram query has been put to a view that holds a Sequence whose
\* bytes are those of the pattern.
C13_Reached ==
    /\ Answered("anagrams")
    /\ \E i \in 1..Len(view) :
          /\ view[i].kind = "Sequence"
          /\ SameSorted(as_bytes(gram_text(library, view[i])), as_bytes(query.pattern))


\* A pattern of one literal character, or "." or the empty pattern, matches
\* every gram of the view: each text holds that character (any character
\* for ".", nothing for the empty pattern).
MatchesAll(p) ==
    \/ p = <<>>
    \/ /\ Len(p) = 1
       /\ \A i \in 1..Len(view) :
             \E k \in 1..Len(gram_text(library, view[i])) :
                is_dot(p[1]) \/ gram_text(library, view[i])[k] = p[1]

\* C19: an identity query (a filter whose predicate is true, or a depth-0
\* search whose pattern matches every gram) answers the view it was put
\* to, gram for gram in the same order, Sequences included.
C19_Idempotence ==
    (\/ Answered("filter") /\ query.predicate = "true"
     \/ Answered("search") /\ query.repeats = 0 /\ MatchesAll(query.pattern))
    => /\ answer.kind = "ok"
       /\ answer.grams = view

\* An identity search has been put to a derived view that holds a Sequence
\* and a Word.
C19_Witness ==
    /\ Answered("search") /\ query.repeats = 0 /\ MatchesAll(query.pattern)
    /\ asked > 0
    /\ \E i, j \in 1..Len(view) : view[i].kind = "Sequence" /\ view[j].kind = "Word"


\* A gram is a Word of one seed or a Sequence of two seeds at least, and
\* each of its indices is a seed of the library.
WellFormed(g) ==
    /\ \/ g.kind = "Word" /\ Len(g.indices) = 1
       \/ g.kind = "Sequence" /\ Len(g.indices) >= 2
    /\ \A k \in 1..Len(g.indices) : g.indices[k] \in 1..Len(library)

\* The indices are those of n grams of the view at most, one after another.
RECURSIVE IsChainOf(_, _)
IsChainOf(indices, n) ==
    /\ n > 0
    /\ \E i \in 1..Len(view) :
          LET k == Len(view[i].indices)
          IN  /\ k <= Len(indices)
              /\ SubSeq(indices, 1, k) = view[i].indices
              /\ \/ k = Len(indices)
                 \/ IsChainOf(SubSeq(indices, k + 1, Len(indices)), n - 1)

\* C20: whatever queries were asked since the initial view, every gram of
\* the view and of an answer is a Word or a Sequence of two indices at
\* least, every index is a seed of the library, and the grams a nested
\* search answers over a view (Sequences included) hold the flat list of
\* the indices of the chained grams of the view, never a Sequence of a
\* Sequence nor one of length 0 or 1.
C20_WellFormed ==
    /\ \A i \in 1..Len(view) : WellFormed(view[i])
    /\ answer.kind = "ok" => \A j \in 1..Len(answer.grams) : WellFormed(answer.grams[j])
    /\ (Answered("search") /\ answer.kind = "ok")
          => \A j \in 1..Len(answer.grams) :
                IsChainOf(answer.grams[j].indices, query.repeats + 1)

\* A nested search over a view that holds a Sequence has answered a gram
\* chained of a Sequence and another gram, and a single Word too.
C20_Witness ==
    /\ Answered("search") /\ query.repeats > 0 /\ answer.kind = "ok"
    /\ \E i \in 1..Len(view) : view[i].kind = "Sequence"
    /\ \E j \in 1..Len(answer.grams) : Len(answer.grams[j].indices) >= 3
    /\ \E j \in 1..Len(answer.grams) : answer.grams[j].kind = "Word"


(***************************************************************************)
(* The seeds of a library.                                                 *)
(***************************************************************************)
\* C21: a library collected from n (root, count) pairs holds n seeds, the
\* i-th with the i-th pair's root and count and with index i, repeated
\* roots included; its first librarian holds n grams, the i-th being the
\* Word of seed i.
C21_SeedIndex ==
    /\ pc \in {"library", "ready"}
          => /\ Len(seeds) = Len(pairs)
             /\ \A i \in 1..Len(seeds) :
                   seeds[i] = [root |-> pairs[i].root, index |-> i, count |-> pairs[i].count]
    /\ (pc = "ready" /\ asked = 0 /\ query = NoQuery)
          => /\ Len(view) = Len(pairs)
             /\ \A i \in 1..Len(view) :
                   /\ view[i] = [kind |-> "Word", indices |-> <<i>>]
                   /\ gram_text(library, view[i]) = pairs[i].root

\* The first librarian of a library in which a root comes twice.
C21_Witness ==
    /\ pc = "ready"
    /\ Len(pairs) >= 2
    /\ Len(view) = Len(pairs)
    /\ \E i, j \in 1..Len(pairs) : i < j /\ pairs[i].root = pairs[j].root


(***************************************************************************)
(* The errors of the queries.                                              *)
(***************************************************************************)
\* The error values a query may return: error.rs, enum Error.
Errors == {"DFA", "NFA", "DFASearch", "Regex", "NoNearest"}

\* C22: whatever the view and the query, a query operation returns a view
\* or one of the listed errors; it never panics.
C22_NoPanic ==
    pc = "answered" => answer.kind \in {"ok"} \cup Errors

\* C22 of a build without debug assertions, over libraries of roots that
\* are not empty.
C22_NoPanicRelease ==
    (pc = "answered" /\ ~debug_assertions) => answer.kind \in {"ok"} \cup Errors


\* Some gram of the view is within the query's distance of its pattern.
WithinDistance ==
    \E i \in 1..Len(view) : Lev(ViewText(i), query.pattern) <= query.distance

\* C23: nearest fails with NoNearest exactly when no gram of the view is
\* within edit distance d of the pattern; when some gram is, it succeeds
\* and the distance it returns is at most d.
C23_NoNearest ==
    Answered("nearest")
        => /\ answer.kind = "NoNearest" <=> ~WithinDistance
           /\ WithinDistance => answer.kind = "ok" /\ answer.distance <= query.distance

\* What holds of C23: nearest answers or fails with NoNearest, it fails
\* when no gram is within distance d, and a distance it returns is at
\* most d.
C23_NoNearestOneWay ==
    Answered("nearest")
        => /\ answer.kind \in {"ok", "NoNearest"}
           /\ ~WithinDistance => answer.kind = "NoNearest"
           /\ answer.kind = "ok" => answer.distance <= query.distance


\* C24: a Levenshtein automaton is not built of an empty set of distances:
\* a distance query whose distances are empty returns an error, not a view.
C24_EmptyDistances ==
    (Answered("distance") /\ query.distances = {}) => answer.kind \in Errors

\* What the code does with no distance: it answers the empty view.
C24_EmptyDistancesAnswer ==
    (Answered("distance") /\ query.distances = {})
        => answer.kind = "ok" /\ answer.grams = <<>>


(***************************************************************************)
(* The bytes below the root of a trie.                                     *)
(***************************************************************************)
\* The keys inserted so far.
InsertedKeys == {inserted[i].key : i \in 1..Len(inserted)}

\* The bytes bytes() yields at the root, in the order it yields them.
RootBytes ==
    Let(bytes(trie, TrieRoot), LAMBDA children :
        [i \in 1..Len(children) |-> children[i].byte])

\* C25: the bytes yielded by bytes() at the root are, as a multiset, the
\* first bytes of all the inserted keys, and they come in ascending order.
C25_ByteMultiset ==
    pc = "trie"
        => /\ \A b \in Range(RootBytes) \cup {as_bytes(k)[1] : k \in InsertedKeys} :
                 Count(RootBytes, b) = Cardinality({k \in InsertedKeys : as_bytes(k)[1] = b})
           /\ \A i, j \in 1..Len(RootBytes) : i < j => RootBytes[i] <= RootBytes[j]

\* C25 amended: the bytes yielded at the root are, as a set, the first
\* bytes of the inserted keys, each yielded once, in ascending order.
C25_ByteSet ==
    pc = "trie"
        => /\ Range(RootBytes) = {as_bytes(k)[1] : k \in InsertedKeys}
           /\ \A i, j \in 1..Len(RootBytes) : i < j => RootBytes[i] < RootBytes[j]

\* Two keys with the same first byte and a key of a two-byte character
\* have been inserted.
C25_Witness ==
    /\ pc = "trie"
    /\ \E k1, k2, k3 \in InsertedKeys :
          /\ k1 # k2 /\ as_bytes(k1)[1] = as_bytes(k2)[1]
          /\ Len(as_bytes(k3)) > Len(k3)
    /\ Len(RootBytes) = 2


(***************************************************************************)
(* The memoised edit distance.                                             *)
(***************************************************************************)
LastCall == calls[Len(calls)]

\* C26: a call of gram::levenshtein(a, b) returns the Levenshtein distance
\* of a and b, and returns what it would return had no call been made
\* before it: the cache never answers with the value of another pair.
C26_Levenshtein ==
    calls # <<>>
        => /\ ~LastCall.panic
           /\ LastCall.value = Lev(LastCall.a, LastCall.b)
           /\ LastCall.value = gram_levenshtein(LastCall.a, LastCall.b, <<>>).value

\* What holds of C26: the first call of a process, on texts of one-byte
\* characters without '#', returns the Levenshtein distance.
C26_PlainFirstCall ==
    (/\ Len(calls) = 1
     /\ \A c \in Range(LastCall.a) \cup Range(LastCall.b) : c < 128 /\ c # HASH)
        => ~LastCall.panic /\ LastCall.value = Lev(LastCall.a, LastCall.b)

\* C26 of texts of one-byte characters: the cache alone is at fault.
C26_CacheOnly ==
    (/\ calls # <<>>
     /\ \A c \in Range(LastCall.a) \cup Range(LastCall.b) : c < 128)
        => ~LastCall.panic /\ LastCall.value = Lev(LastCall.a, LastCall.b)


(***************************************************************************)
(* The end of a walk.                                                      *)
(***************************************************************************)
\* The nodes the walk holds or has yielded.
WalkNodes ==
    {heads[i].node : i \in 1..Len(heads)}
        \cup {heads[i].children.node : i \in 1..Len(heads)}
        \cup {yields[i].node : i \in 1..Len(yields)}

\* The leaves of the trie: the nodes that carry a value.
Leaves == {n \in DOMAIN trie : trie_is_leaf(trie, n)}

\* The nodes of the nested tree that end a key: the chains of 1 to d + 1
\* leaves.
RECURSIVE ChainsUpTo(_)
ChainsUpTo(d) ==
    IF d = 0 THEN Cardinality(Leaves)
    ELSE Cardinality(Leaves) * (1 + ChainsUpTo(d - 1))

\* C27: a walk ends.  The depth a node has left is the depth of the walk
\* less the leaves crossed to reach it and is never negative, so no path
\* crosses more than d leaves before its last one; the items yielded are
\* no more than the leaves of that finite tree, each call of next yielding
\* one or ending the walk; and when next has returned None the stack of
\* heads is empty.
C27_Termination ==
    /\ \A n \in WalkNodes : n.depth >= 0 /\ n.depth + Len(n.parent) = depth
    /\ Len(yields) <= ChainsUpTo(depth)
    /\ pc = "done" => heads = <<>>
    /\ pc = "iterate" => heads # <<>> \/ ~MultiHeadDFA_next(dfa, trie, heads).some

\* A walk over a nested tree has ended after it yielded a node that
\* crossed as many leaves as the depth allows.
C27_Witness ==
    /\ pc = "done"
    /\ depth > 0
    /\ \E i \in 1..Len(yields) : Len(yields[i].node.parent) = depth


(***************************************************************************)
(* The flat and the nested search on single grams.                         *)
(***************************************************************************)
\* The grams of the view have pairwise distinct texts.
DistinctTexts == \A i, j \in 1..Len(view) : ViewText(i) = ViewText(j) => i = j

\* The results that are one gram of the view: the chains of length one.
SingleResults == {g \in Range(answer.grams) : g \in Range(view)}

\* The grams the flat search of the same pattern returns.
FlatResults ==
    Range(search_flat(library, view, [query EXCEPT !.repeats = 0], debug_assertions).grams)

TrieBased ==
    /\ pc = "answered"
    /\ \/ query.kind \in {"nearest", "distance"}
       \/ query.kind \in {"search", "anagrams"} /\ query.repeats > 0

\* Two grams of the view with the same text are both in the answer or both
\* left out.
SameTextSameFate ==
    \A i, j \in 1..Len(view) :
        ViewText(i) = ViewText(j)
            => (view[i] \in Range(answer.grams) <=> view[j] \in Range(answer.grams))

\* C29: a query answered from a trie of the view considers every gram of
\* the view: of two grams with the same text, each one is in the result
\* whenever the other is; none is replaced by the other.
C29_EveryGram == (TrieBased /\ answer.kind = "ok") => SameTextSameFate

\* The flat search, which reads the view and builds no trie, does treat
\* the grams of one text alike.
C29_EveryGramFlat ==
    (Answered("search") /\ query.repeats = 0 /\ answer.kind = "ok") => SameTextSameFate


(***************************************************************************)
(* The empty key.                                                          *)
(***************************************************************************)
\* C30: inserting the empty key does not fail: no call of insert panics,
\* and once the empty key has been inserted its value is stored at the
\* root node, get of the empty key returns it, and the root is a leaf.
C30_EmptyKey ==
    /\ pc # "panicked"
    /\ (\E i \in 1..Len(inserted) : inserted[i].key = <<>>)
          => /\ trie_is_leaf(trie, <<>>)
             /\ get(trie, <<>>) = Latest(inserted, <<>>)

\* What the code does instead: only a call with the empty key panics, no
\* call with the empty key returns, and the root never becomes a leaf.
C30_EmptyKeyPanics ==
    /\ \A i \in 1..Len(inserted) : inserted[i].key # <<>>
    /\ ~trie_is_leaf(trie, <<>>)
    /\ get(trie, <<>>) = NoValue

=============================================================================
